---- MODULE Spec2Model ----
(***************************************************************************)
(* elia-opendata: the date-range fetch of EliaDataProcessor                *)
(* (elia_opendata/data_processor.py): MARI transition routing, filter      *)
(* building, offset/limit pagination with the 10,000 ceiling, the export   *)
(* path and the merge of the two segments; the override of                 *)
(* ImbalanceDataProcessor (elia_opendata/imbalance_data_processor.py); the *)
(* Records model (elia_opendata/models.py); fetch_current_value and        *)
(* sequences of calls on one processor; the error mapping of               *)
(* EliaClient.get_records (elia_opendata/client.py).                       *)
(*                                                                         *)
(* Python values are modelled as follows.                                  *)
(*   None                  the string "None"                               *)
(*   datetime(y, m, d, h)  [year |-> y, month |-> m, day |-> d, hour |-> h]*)
(*   a date argument       [datetime |-> dt] or [str |-> "2024-05-21"]     *)
(*   **kwargs              a function whose DOMAIN is the set of keys      *)
(*   a list / DataFrame    [rep |-> "json"|"pandas"|"polars", rows |-> seq]*)
(* The transport (EliaClient) is seen through what the processor does with *)
(* its answer: truth value, len() and iteration, i.e. a finite sequence of *)
(* records.  (EliaClient.get_records hands on response.json() as it is;    *)
(* the processor treats that value as the list of the page's records.)     *)
(***************************************************************************)
EXTENDS Integers, Sequences, FiniteSets, TLC

VARIABLES
    processor,      \* class of the processor object
    return_type,    \* EliaDataProcessor.return_type
    pre_mari_dataset_id,    \* ImbalanceDataProcessor.pre_mari_dataset_id
    post_mari_dataset_id,   \* ImbalanceDataProcessor.post_mari_dataset_id
    pc,             \* "idle" | "paginate" | "export" | "merge" | "returned" | "raised"
                    \* (a Records object: "models" | "constructed" | "read")
    call,           \* arguments of the running fetch_data_between call
    plan,           \* the _fetch_data_for_period calls of the branch taken, in order
    segno,          \* which of them is running
    seg,            \* frame of the running _fetch_via_pagination/_fetch_via_export
    pre_mari_data,  \* value of the first _fetch_data_for_period call
    post_mari_data, \* value of the last _fetch_data_for_period call
    result,         \* value returned to the caller
    error,          \* exception raised to the caller
    requests,       \* transport calls issued by the running call, in order
    warnings,       \* logger.warning records emitted by the running call
    server,         \* per segment started: records the server holds for its query
    fault,          \* the exception the transport raised in the running call
    data,           \* the response dict a Records object is built from
    records_obj,    \* the Records object
    has_next_value, \* what its has_next property was read as
    own_kwargs,     \* the kwargs dict of the running fetch_data_between or
                    \* fetch_current_value frame
    opts,           \* the dict the caller unpacks into the call: f(..., **opts)
    response,       \* what the HTTP layer answers to the request of EliaClient
    calls_made      \* calls the caller has made on the processor and seen end

vars == <<processor, return_type, pre_mari_dataset_id, post_mari_dataset_id, pc, call,
          plan, segno, seg, pre_mari_data, post_mari_data, result, error, requests,
          warnings, server, fault, data, records_obj, has_next_value, own_kwargs,
          opts, response, calls_made>>

\* the state of models.py, which no method of the processors touches
models == <<data, records_obj, has_next_value>>

None == "None"

----------------------------------------------------------------------------
(* Bounds of the model *)

\* most records the server holds for one segment's query (small runs)
MaxMatching == 3

\* the batch size the caller passes as limit (small runs)
SmallLimit == 2

----------------------------------------------------------------------------
(* dataset_catalog.py *)

DATASET_NAME_MAPPING ==
    [ IMBALANCE_PRICES_QH |-> [pre_mari |-> "ods047", post_mari |-> "ods134"],
      IMBALANCE_PRICES_MIN |-> [pre_mari |-> "ods046", post_mari |-> "ods133"],
      SYSTEM_IMBALANCE |-> [pre_mari |-> "ods045", post_mari |-> "ods126"],
      ACTIVATED_BALANCING_VOLUMES |-> [pre_mari |-> "ods061", post_mari |-> "ods063"],
      ACTIVATED_BALANCING_PRICES |-> [pre_mari |-> "ods062", post_mari |-> "ods064"] ]

----------------------------------------------------------------------------
(* datetime *)

dt(y, m, d, h) == [year |-> y, month |-> m, day |-> d, hour |-> h]

\* datetime.__lt__: chronological order
dt_lt(a, b) ==
    \/ a.year < b.year
    \/ a.year = b.year /\ a.month < b.month
    \/ a.year = b.year /\ a.month = b.month /\ a.day < b.day
    \/ a.year = b.year /\ a.month = b.month /\ a.day = b.day /\ a.hour < b.hour

dt_ge(a, b) == ~dt_lt(a, b)

IsLeap(y) == (y % 4 = 0 /\ y % 100 # 0) \/ y % 400 = 0

DaysInMonth(y, m) ==
    IF m = 2 THEN (IF IsLeap(y) THEN 29 ELSE 28)
    ELSE IF m \in {4, 6, 9, 11} THEN 30 ELSE 31

\* datetime - pd.Timedelta(days=1)
minus_one_day(a) ==
    IF a.day > 1 THEN dt(a.year, a.month, a.day - 1, a.hour)
    ELSE IF a.month > 1
         THEN dt(a.year, a.month - 1, DaysInMonth(a.year, a.month - 1), a.hour)
         ELSE dt(a.year - 1, 12, 31, a.hour)

Pad2(n) == IF n < 10 THEN "0" \o ToString(n) ELSE ToString(n)

\* datetime.strftime(DATE_FORMAT) with DATE_FORMAT = "%Y-%m-%d": the time of day is dropped
strftime(a) == ToString(a.year) \o "-" \o Pad2(a.month) \o "-" \o Pad2(a.day)

MARI_TRANSITION_DATE == dt(2024, 5, 22, 0)

\* datetime.isoformat(): what datetime.fromisoformat reads back
isoformat(a) == strftime(a) \o "T" \o Pad2(a.hour) \o ":00:00"

\* the strings datetime.fromisoformat accepts (within IsoYears, whole hours),
\* each with the datetime it denotes; a date alone denotes midnight
IsoYears == 2023..2025
IsoHours == {0, 12}

IsoTable ==
    LET days == {d \in [year : IsoYears, month : 1..12, day : 1..31, hour : IsoHours] :
                    d.day <= DaysInMonth(d.year, d.month)}
    IN  {<<isoformat(d), d>> : d \in days}
        \cup {<<strftime(d), d>> : d \in {x \in days : x.hour = 0}}

IsoParse == [s \in {p[1] : p \in IsoTable} |-> (CHOOSE p \in IsoTable : p[1] = s)[2]]

is_iso(s) == s \in DOMAIN IsoParse

\* datetime.fromisoformat(s), for a string it accepts (it raises ValueError otherwise)
fromisoformat(s) == IsoParse[s]

----------------------------------------------------------------------------
(* Values *)

ReturnTypes == {"json", "pandas", "polars"}

\* a list of records (rep "json") or a DataFrame (rep "pandas", "polars")
Value(rep, rows) == [rep |-> rep, rows |-> rows]

NoValue == Value(None, <<>>)

\* dict.pop(k, default) leaves the other keys
Pop(kw, k) == [j \in DOMAIN kw \ {k} |-> kw[j]]

\* kwargs.get(k, default)
Get(kw, k, default) == IF k \in DOMAIN kw THEN kw[k] ELSE default

isinstance_str(x) == "str" \in DOMAIN x

----------------------------------------------------------------------------
(* models.py: Records *)

\* Records.__init__
records_init(d) ==
    [total_count |-> Get(d, "total_count", 0),
     records |-> Get(d, "records", <<>>),
     links |-> Get(d, "links", <<>>)]

NoRecords == [total_count |-> 0, records |-> <<>>, links |-> <<>>]

\* faulty variant: only the first link is looked at
has_next_first(self) ==
    self.links # <<>> /\ Get(self.links[1], "rel", None) = "next"

\* Records.has_next
has_next(self) ==
    \E i \in DOMAIN self.links : Get(self.links[i], "rel", None) = "next"

----------------------------------------------------------------------------
(* The server behind the transport: for one query it holds n matching      *)
(* records, numbered 1..n in the order it serves them.                     *)

Min(a, b) == IF a < b THEN a ELSE b

Record(ds, k) == [ds |-> ds, k |-> k]

\* the records endpoint: at most `limit` records after skipping `offset`
ServerPage(ds, n, offset, limit) ==
    LET len == IF n > offset THEN Min(limit, n - offset) ELSE 0
    IN  [i \in 1..len |-> Record(ds, offset + i)]

----------------------------------------------------------------------------
(* EliaDataProcessor *)

DefaultLimit == 100
PaginationCeiling == 10000

\* _format_output
format_output(rt, records) ==
    IF rt \in ReturnTypes THEN Value(rt, records) ELSE NoValue

\* faulty variant: the lists are concatenated the other way round
merge_data_swapped(rt, pre, post) ==
    IF rt = "json" THEN Value("json", post.rows \o pre.rows)
    ELSE IF pre.rows = <<>> THEN post
    ELSE IF post.rows = <<>> THEN pre
    ELSE Value(rt, post.rows \o pre.rows)

\* faulty variant: the short cut returns the empty frame instead of the other one
merge_data_short_cut(rt, pre, post) ==
    IF rt = "json" THEN Value("json", pre.rows \o post.rows)
    ELSE IF pre.rows = <<>> THEN pre
    ELSE IF post.rows = <<>> THEN post
    ELSE Value(rt, pre.rows \o post.rows)

\* _merge_data; DataFrame.empty / is_empty() is "no rows"
merge_data(rt, pre, post) ==
    IF rt = "json" THEN Value("json", pre.rows \o post.rows)
    ELSE IF rt = "pandas"
    THEN IF pre.rows = <<>> THEN post
         ELSE IF post.rows = <<>> THEN pre
         ELSE Value("pandas", pre.rows \o post.rows)
    ELSE IF rt = "polars"
    THEN IF pre.rows = <<>> THEN post
         ELSE IF post.rows = <<>> THEN pre
         ELSE Value("polars", pre.rows \o post.rows)
    ELSE NoValue

\* line 505: `not batch_records`
is_empty(batch_records) == batch_records = <<>>

\* faulty variant: the batch replaces what was accumulated
extend_overwrite(all_records, batch_records) == batch_records

\* line 508: all_records.extend(batch_records)
extend(all_records, batch_records) == all_records \o batch_records

\* faulty variant: a full page is taken for the last one
is_last_page_le(batch_records, limit) == Len(batch_records) <= limit

\* line 511: fewer records than requested
is_last_page(batch_records, limit) == Len(batch_records) < limit

\* faulty variant: the offset moves on by one record, not by one page
next_offset_by_one(offset, limit) == offset + 1

\* line 514: offset += limit
next_offset(offset, limit) == offset + limit

\* faulty variant: the ceiling is compared with the offset alone
reached_ceiling_offset(limit, offset) == offset > PaginationCeiling

\* line 516, with offset already advanced to the next page
reached_ceiling(limit, offset) == limit + offset > PaginationCeiling

\* faulty variant: an empty post frame makes the merge return an empty frame
imbalance_merge_data_empty(rt, pre, post) ==
    IF rt = "json" THEN Value("json", pre.rows \o post.rows)
    ELSE IF pre.rows = <<>> THEN post
    ELSE IF post.rows = <<>> THEN post
    ELSE Value(rt, pre.rows \o post.rows)

\* ImbalanceDataProcessor._merge_data
imbalance_merge_data(rt, pre, post) ==
    IF rt = "json" THEN Value("json", pre.rows \o post.rows)
    ELSE IF rt = "pandas"
    THEN IF pre.rows = <<>> THEN post
         ELSE IF post.rows = <<>> THEN pre
         ELSE Value("pandas", pre.rows \o post.rows)
    ELSE IF rt = "polars"
    THEN IF pre.rows = <<>> THEN post
         ELSE IF post.rows = <<>> THEN pre
         ELSE Value("polars", pre.rows \o post.rows)
    ELSE NoValue

\* the generated date clause of _fetch_data_for_period
date_filter(start_date_str, end_date_str) ==
    "datetime IN [date'" \o start_date_str \o "'..date'" \o end_date_str \o "']"

\* faulty variant: the two clauses are joined without their parentheses
combine_where_bare(kwargs, where_condition) ==
    IF "where" \in DOMAIN kwargs
    THEN [kwargs EXCEPT !["where"] = @ \o " AND " \o where_condition]
    ELSE [where |-> where_condition] @@ kwargs

\* kwargs["where"] after _fetch_data_for_period has added the date clause
combine_where(kwargs, where_condition) ==
    IF "where" \in DOMAIN kwargs
    THEN [kwargs EXCEPT !["where"] = "(" \o @ \o ") AND (" \o where_condition \o ")"]
    ELSE [where |-> where_condition] @@ kwargs

\* faulty variant: JSON is asked for whatever the return type
export_format_json(rt) == "json"

\* export_format of _fetch_via_export
export_format(rt) == IF rt \in {"pandas", "polars"} THEN "parquet" ELSE "json"

\* faulty variant: the flag is popped and then ignored
export_data_ignored(kwargs) == FALSE

\* line 469: kwargs.pop("export_data", False), the value popped
export_data(kwargs) == Get(kwargs, "export_data", FALSE)

\* faulty variant: the dict itself is handed to the callee, whose changes
\* (where, export_data, limit) are then the caller's
star_star_by_reference(caller_dict, callee_dict) == callee_dict

\* lines 408-410, 414-416, 419-421 and 471-474: f(..., **kwargs) builds the
\* callee a dict of its own, so the caller's dict after the call is what it
\* was before, whatever the callee did to its own (callee_dict)
star_star(caller_dict, callee_dict) == caller_dict

\* _fetch_data_for_period up to its first transport call: the frame of
\* _fetch_via_export or of _fetch_via_pagination as it enters the loop
fetch_data_for_period(p, kwargs0) ==
    LET kw1 == combine_where(kwargs0, date_filter(p.start_date_str, p.end_date_str))
        kw2 == Pop(kw1, "export_data")
    IN  IF export_data(kw1)
        THEN [mode |-> "export", dataset_id |-> p.dataset_id, kwargs |-> kw2,
              all_records |-> <<>>, offset |-> 0, limit |-> 0]
        ELSE [mode |-> "paginate", dataset_id |-> p.dataset_id,
              kwargs |-> Pop(kw2, "limit"),
              all_records |-> <<>>, offset |-> 0,
              limit |-> Get(kw2, "limit", DefaultLimit)]

NoFrame == [mode |-> None, dataset_id |-> None, kwargs |-> <<>>,
            all_records |-> <<>>, offset |-> 0, limit |-> 0]

Period(id, s, e) == [dataset_id |-> id, start_date_str |-> s, end_date_str |-> e]

\* faulty variant: the transition date of imbalance_data_processor.py, a month early
is_pre_only_april(end_dt) == dt_lt(end_dt, dt(2024, 4, 22, 0))

\* line 375: the range ends before the transition
is_pre_only(end_dt) == dt_lt(end_dt, MARI_TRANSITION_DATE)

\* line 385: the range starts on or after the transition
is_post_only(start_dt) == dt_ge(start_dt, MARI_TRANSITION_DATE)

\* faulty variant: the day is not subtracted: both segments hold the transition day
pre_mari_end_same_day == strftime(MARI_TRANSITION_DATE)

\* lines 401-402: the pre segment's last day
pre_mari_end == strftime(minus_one_day(MARI_TRANSITION_DATE))

\* faulty variant: the post-MARI period starts a day late
mari_transition_str_next_day == "2024-05-23"

\* line 413: the post segment's first day
mari_transition_str == strftime(MARI_TRANSITION_DATE)

Exception(type, message) == [type |-> type, message |-> message]
NoError == Exception(None, "")

Raise(type, message) == [error |-> Exception(type, message), plan |-> <<>>]
Calls(ps) == [error |-> NoError, plan |-> ps]

\* faulty variant: the post-MARI period is fetched first
both_periods_post_first(pre, post) == <<post, pre>>

\* lines 396-422: the range straddles the transition; the pre-MARI period is
\* fetched, and when that call has returned the post-MARI period
both_periods(pre, post) == <<pre, post>>

\* faulty variant: the check tests for empty strings, which None is not
neither_given_empty(dataset_id, dataset_name) == dataset_id = "" /\ dataset_name = ""

\* line 328: neither a dataset id nor a dataset name
neither_given(dataset_id, dataset_name) == dataset_id = None /\ dataset_name = None

\* faulty variant: the mapping is indexed unchecked and the dict raises KeyError
dataset_name_not_found_key_error == Raise("KeyError", "NO_SUCH_NAME")

\* lines 357-362: the name is not a key of DATASET_NAME_MAPPING
dataset_name_not_found ==
    Raise("ValueError", "Dataset name not found in DATASET_NAME_MAPPING")

\* faulty variant: the precedence is inverted, the name is looked at last
name_takes_precedence_never(dataset_name) == FALSE

\* line 356: a dataset_name, when given, decides
name_takes_precedence(dataset_name) == dataset_name # None

\* fetch_data_between: the exception it raises before any fetch, or the
\* _fetch_data_for_period calls it makes, in order
resolve(a) ==
    IF neither_given(a.dataset_id, a.dataset_name)
    THEN Raise("ValueError", "Either dataset_id or dataset_name must be provided")
    ELSE IF isinstance_str(a.start_date) /\ ~is_iso(a.start_date.str)
    THEN Raise("ValueError", "Invalid isoformat string")
    ELSE IF isinstance_str(a.end_date) /\ ~is_iso(a.end_date.str)
    THEN Raise("ValueError", "Invalid isoformat string")
    ELSE
    LET start_dt == IF isinstance_str(a.start_date)
                    THEN fromisoformat(a.start_date.str) ELSE a.start_date.datetime
        end_dt == IF isinstance_str(a.end_date)
                  THEN fromisoformat(a.end_date.str) ELSE a.end_date.datetime
        start_date_str == IF isinstance_str(a.start_date)
                          THEN a.start_date.str ELSE strftime(a.start_date.datetime)
        end_date_str == IF isinstance_str(a.end_date)
                        THEN a.end_date.str ELSE strftime(a.end_date.datetime)
    IN  IF name_takes_precedence(a.dataset_name)
        THEN IF a.dataset_name \notin DOMAIN DATASET_NAME_MAPPING
             THEN dataset_name_not_found
             ELSE LET pre_mari_id == DATASET_NAME_MAPPING[a.dataset_name].pre_mari
                      post_mari_id == DATASET_NAME_MAPPING[a.dataset_name].post_mari
                  IN  IF is_pre_only(end_dt)
                      THEN Calls(<<Period(pre_mari_id, start_date_str, end_date_str)>>)
                      ELSE IF is_post_only(start_dt)
                      THEN Calls(<<Period(post_mari_id, start_date_str, end_date_str)>>)
                      ELSE Calls(both_periods(
                               Period(pre_mari_id, start_date_str, pre_mari_end),
                               Period(post_mari_id, mari_transition_str, end_date_str)))
        ELSE IF a.dataset_id = None
             THEN Raise("ValueError",
                        "dataset_id must be provided when dataset_name is not used")
             ELSE Calls(<<Period(a.dataset_id, start_date_str, end_date_str)>>)

----------------------------------------------------------------------------
(* ImbalanceDataProcessor (imbalance_data_processor.py) *)

\* MARI_TRANSITION_DATE of imbalance_data_processor.py
IMBALANCE_MARI_TRANSITION_DATE == dt(2024, 4, 22, 0)

\* line 260
transition_date_minus_one == dt(2024, 4, 21, 0)

\* str(datetime), as an f-string writes a datetime
str_datetime(a) == strftime(a) \o " " \o Pad2(a.hour) \o ":00:00"

\* a date argument where a dataset id is expected: the parent only tests it
\* against None and hands it on; the request path is built from its str()
as_dataset_id(x) == IF isinstance_str(x) THEN x.str ELSE str_datetime(x.datetime)

\* super().fetch_data_between(x, y, z, **kwargs): the parent binds its
\* positional parameters in its own order, start_date, end_date, dataset_id
super_fetch_data_between(x, y, z, kwargs) ==
    resolve([start_date |-> [str |-> x], end_date |-> y,
             dataset_id |-> as_dataset_id(z), dataset_name |-> None,
             kwargs |-> kwargs])

\* ImbalanceDataProcessor.fetch_data_between: the _fetch_data_for_period
\* calls its super() calls make, in order, and the exception that ends it
\* (before any of them, or after them when a later super() call raises)
imbalance_resolve(pre_id, post_id, a) ==
    IF isinstance_str(a.start_date) /\ ~is_iso(a.start_date.str)
    THEN Raise("ValueError", "Invalid isoformat string")
    ELSE IF isinstance_str(a.end_date) /\ ~is_iso(a.end_date.str)
    THEN Raise("ValueError", "Invalid isoformat string")
    ELSE
    LET start_dt == IF isinstance_str(a.start_date)
                    THEN fromisoformat(a.start_date.str) ELSE a.start_date.datetime
        end_dt == IF isinstance_str(a.end_date)
                  THEN fromisoformat(a.end_date.str) ELSE a.end_date.datetime
    IN  IF dt_lt(end_dt, IMBALANCE_MARI_TRANSITION_DATE)
        THEN super_fetch_data_between(pre_id, a.start_date, a.end_date, a.kwargs)
        ELSE IF dt_ge(start_dt, IMBALANCE_MARI_TRANSITION_DATE)
        THEN super_fetch_data_between(post_id, a.start_date, a.end_date, a.kwargs)
        ELSE LET first == super_fetch_data_between(pre_id, a.start_date,
                              [datetime |-> transition_date_minus_one], a.kwargs)
                 second == super_fetch_data_between(post_id,
                              [datetime |-> IMBALANCE_MARI_TRANSITION_DATE],
                              a.end_date, a.kwargs)
             IN  IF first.error # NoError THEN first
                 ELSE [error |-> second.error, plan |-> first.plan \o second.plan]

----------------------------------------------------------------------------
(* Arguments the caller may pass *)

DateArgs ==
    { [datetime |-> dt(2024, 4, 1, 0)],
      [datetime |-> dt(2024, 5, 21, 12)],
      [datetime |-> dt(2024, 5, 22, 0)],
      [datetime |-> dt(2024, 5, 31, 0)],
      [str |-> "2024-03-31"],
      [str |-> "2024-05-22"],
      [str |-> "2024-06-30T12:00:00"],
      [str |-> "not-a-date"] }

DatasetIds == {None, "ods001"}
DatasetNames == {None, "IMBALANCE_PRICES_QH", "NO_SUCH_NAME"}

\* every dict with some of the keys where, limit, export_data
KwargsOver(wheres, limits) ==
    { [k \in D |-> f[k]] :
        f \in [where : wheres, limit : limits, export_data : BOOLEAN],
        D \in SUBSET {"where", "limit", "export_data"} }

Kwargs == KwargsOver({"type='measured'", "a = 1 OR b = 2"}, {SmallLimit})

Args == [start_date : DateArgs, end_date : DateArgs,
         dataset_id : DatasetIds, dataset_name : DatasetNames, kwargs : Kwargs]

NoCall == [start_date |-> [str |-> ""], end_date |-> [str |-> ""],
           dataset_id |-> None, dataset_name |-> None, kwargs |-> <<>>]

----------------------------------------------------------------------------
(* The state machine: one fetch_data_between call on a constructed         *)
(* processor, a step per transport call.                                   *)

Idle ==
    /\ call = NoCall
    /\ plan = <<>>
    /\ segno = 0
    /\ seg = NoFrame
    /\ result = NoValue
    /\ error = NoError
    /\ requests = <<>>
    /\ warnings = <<>>
    /\ server = <<>>
    /\ fault = NoError
    /\ own_kwargs = <<>>

\* no HTTP exchange
NoResponse == [status |-> 0, failure |-> None, json |-> TRUE, body |-> <<>>]

\* no Records object
NoModels ==
    /\ data = <<>>
    /\ records_obj = NoRecords
    /\ has_next_value = FALSE

Init ==
    /\ processor = "EliaDataProcessor"
    /\ return_type \in ReturnTypes
    /\ pre_mari_dataset_id = None
    /\ post_mari_dataset_id = None
    /\ pc = "idle"
    /\ pre_mari_data = NoValue
    /\ post_mari_data = NoValue
    /\ Idle
    /\ NoModels
    /\ opts = <<>>
    /\ response = NoResponse
    /\ calls_made = 0

\* what the call a does on the processor object: resolve for an
\* EliaDataProcessor, imbalance_resolve for an ImbalanceDataProcessor
Resolve(a) ==
    IF processor = "ImbalanceDataProcessor"
    THEN imbalance_resolve(pre_mari_dataset_id, post_mari_dataset_id, a)
    ELSE resolve(a)

\* _merge_data of the processor's class
MergeOf(pre, post) ==
    IF processor = "ImbalanceDataProcessor"
    THEN imbalance_merge_data(return_type, pre, post)
    ELSE merge_data(return_type, pre, post)

\* fetch_data_between(a.start_date, a.end_date, a.dataset_id, a.dataset_name,
\* **a.kwargs) up to its first transport call, against a server holding
\* srv[i] records for the i-th period queried
Begin(a, srv) ==
    LET r == Resolve(a)
    IN  /\ pc = "idle"
        /\ call' = a
        /\ opts' = a.kwargs
        /\ own_kwargs' = a.kwargs
        /\ IF r.plan = <<>>
           THEN /\ pc' = "raised"
                /\ error' = r.error
                /\ UNCHANGED <<plan, segno, seg, server>>
           ELSE /\ plan' = r.plan
                /\ segno' = 1
                /\ seg' = fetch_data_for_period(r.plan[1], a.kwargs)
                /\ pc' = seg'.mode
                /\ server' = srv
                /\ UNCHANGED error
        /\ UNCHANGED <<processor, return_type, pre_mari_dataset_id, post_mari_dataset_id,
                       pre_mari_data, post_mari_data, result, requests, warnings, fault,
                       models, response,
                   calls_made>>

\* a _fetch_data_for_period call returns v to fetch_data_between, which goes
\* on to its next _fetch_data_for_period call, returns, or (an
\* ImbalanceDataProcessor whose second super() call raises) raises
PeriodReturns(v, frame) ==
    IF segno < Len(plan)
    THEN /\ pre_mari_data' = v
         /\ segno' = segno + 1
         /\ own_kwargs' = star_star(own_kwargs, frame.kwargs)
         /\ seg' = fetch_data_for_period(plan[segno + 1], own_kwargs')
         /\ pc' = seg'.mode
         /\ UNCHANGED <<post_mari_data, result, error, opts>>
    ELSE IF Resolve(call).error # NoError
    THEN /\ pc' = "raised"
         /\ error' = Resolve(call).error
         /\ seg' = frame
         /\ pre_mari_data' = v
         /\ UNCHANGED <<segno, post_mari_data, result, own_kwargs, opts>>
    ELSE /\ pc' = "returned"
         /\ seg' = frame
         /\ own_kwargs' = star_star(own_kwargs, frame.kwargs)
         /\ opts' = star_star(opts, own_kwargs')
         /\ UNCHANGED <<segno, error>>
         /\ IF Len(plan) = 2
            THEN /\ post_mari_data' = v
                 /\ result' = MergeOf(pre_mari_data, v)
                 /\ UNCHANGED pre_mari_data
            ELSE /\ result' = v
                 /\ UNCHANGED <<pre_mari_data, post_mari_data>>

Request(method, dataset_id, params) ==
    [method |-> method, dataset_id |-> dataset_id, params |-> params]

\* one turn of the loop of _fetch_via_pagination, the transport answering
\* its request with batch_records
Turn(batch_records) ==
    /\ pc = "paginate"
    /\ LET all_records == extend(seg.all_records, batch_records)
           offset == next_offset(seg.offset, seg.limit)
       IN  /\ requests' = Append(requests,
                   Request("get_records", seg.dataset_id,
                           [limit |-> seg.limit, offset |-> seg.offset] @@ seg.kwargs))
           /\ IF is_empty(batch_records)
              THEN /\ PeriodReturns(format_output(return_type, seg.all_records), seg)
                   /\ UNCHANGED warnings
              ELSE IF is_last_page(batch_records, seg.limit)
              THEN /\ PeriodReturns(format_output(return_type, all_records),
                                    [seg EXCEPT !.all_records = all_records])
                   /\ UNCHANGED warnings
              ELSE IF reached_ceiling(seg.limit, offset)
              THEN /\ PeriodReturns(format_output(return_type, all_records),
                                    [seg EXCEPT !.all_records = all_records,
                                                !.offset = offset])
                   /\ warnings' = Append(warnings, "Reached maximum pagination limit.")
              ELSE /\ seg' = [seg EXCEPT !.all_records = all_records, !.offset = offset]
                   /\ UNCHANGED <<pc, segno, pre_mari_data, post_mari_data, result,
                                  warnings, error, own_kwargs, opts>>
    /\ UNCHANGED <<processor, return_type, pre_mari_dataset_id, post_mari_dataset_id,
                   call, plan, server, fault, models, response,
                   calls_made>>

\* the turn against the server that holds server[segno] records for the query
GetRecords ==
    Turn(ServerPage(seg.dataset_id, server[segno], seg.offset, seg.limit))

\* client.export answers with the whole result of the query in one piece:
\* parquet bytes that decode to its rows, or JSON in one of the shapes
\* _fetch_via_export tells apart
ExportShapes == {"list", "results", "other"}

\* the export endpoint: every matching record, in one answer
client_export(ds, n) == ServerPage(ds, n, 0, n)

\* the list of records _fetch_via_export makes of a JSON answer
export_records(shape, rows, ds) ==
    IF shape = "results" THEN rows
    ELSE IF shape = "list" THEN rows
    ELSE <<Record(ds, 0)>>

\* _fetch_via_export
Export ==
    /\ pc = "export"
    /\ LET fmt == export_format(return_type)
           rows == client_export(seg.dataset_id, server[segno])
       IN  /\ requests' = Append(requests,
                   Request("export", seg.dataset_id,
                           [export_format |-> fmt] @@ seg.kwargs))
           /\ IF fmt = "json"
              THEN \E shape \in ExportShapes :
                     PeriodReturns(format_output(return_type,
                                       export_records(shape, rows, seg.dataset_id)), seg)
              ELSE PeriodReturns(Value(return_type, rows), seg)
    /\ UNCHANGED <<processor, return_type, pre_mari_dataset_id, post_mari_dataset_id,
                   call, plan, server, warnings, fault, models, response,
                   calls_made>>

FetchDataBetween ==
    /\ pc = "idle"
    /\ \E a \in Args : \E srv \in [1..Len(resolve(a).plan) -> 0..MaxMatching] :
         Begin(a, srv)

Next == FetchDataBetween \/ GetRecords \/ Export

Spec == Init /\ [][Next]_vars

----------------------------------------------------------------------------
(* The same call against a transport that may raise instead of answering.  *)

\* the exceptions EliaClient raises
TransportErrors ==
    { Exception("RateLimitError", "API rate limit exceeded"),
      Exception("AuthError", "Authentication failed"),
      Exception("APIError", "API request failed"),
      Exception("ConnectionError", "Connection failed") }

\* faulty variant: the exception is caught and what was accumulated is returned
uncaught_swallowed(e, all_records) ==
    [raised |-> FALSE, error |-> NoError, records |-> all_records]

\* lines 498-503 and 552-556: the transport call stands in no try block, its
\* exception leaves _fetch_via_pagination / _fetch_via_export,
\* _fetch_data_for_period and fetch_data_between as it is
uncaught(e, all_records) == [raised |-> TRUE, error |-> e, records |-> <<>>]

\* the transport call of the running segment raises e
TransportRaises(method, params, e) ==
    LET o == uncaught(e, seg.all_records)
    IN  /\ requests' = Append(requests, Request(method, seg.dataset_id, params))
        /\ fault' = e
        /\ IF o.raised
           THEN /\ pc' = "raised"
                /\ error' = o.error
                /\ UNCHANGED <<segno, seg, pre_mari_data, post_mari_data, result,
                               own_kwargs, opts>>
           ELSE PeriodReturns(format_output(return_type, o.records), seg)
        /\ UNCHANGED <<processor, return_type, pre_mari_dataset_id,
                       post_mari_dataset_id, call, plan, server, warnings, models,
                       response,
                   calls_made>>

GetRecordsRaises ==
    /\ pc = "paginate"
    /\ \E e \in TransportErrors :
         TransportRaises("get_records",
                         [limit |-> seg.limit, offset |-> seg.offset] @@ seg.kwargs, e)

ExportRaises ==
    /\ pc = "export"
    /\ \E e \in TransportErrors :
         TransportRaises("export",
                         [export_format |-> export_format(return_type)] @@ seg.kwargs, e)

NextFail == FetchDataBetween \/ GetRecords \/ Export \/ GetRecordsRaises \/ ExportRaises

SpecFail == Init /\ [][NextFail]_vars

----------------------------------------------------------------------------
(* The paginator at the sizes of the program: the default batch size and   *)
(* batch sizes around the ceiling, against servers holding up to and       *)
(* beyond 10,000 matching records.                                         *)

PageLimits == {2500, 6000, 10000, 10001}
PageKwargs == {<<>>} \cup {[limit |-> l] : l \in PageLimits}
PageMatching == {0, 1, 99, 100, 101, 250, 2500, 9999, 10000, 10001, 12000, 30000}

PageArgs == [start_date : {[datetime |-> dt(2024, 6, 1, 0)]},
             end_date : {[str |-> "2024-06-30"]},
             dataset_id : {"ods001"}, dataset_name : {None}, kwargs : PageKwargs]

FetchDataBetweenPages ==
    /\ pc = "idle"
    /\ \E a \in PageArgs : \E n \in PageMatching : Begin(a, <<n>>)

NextPage == FetchDataBetweenPages \/ GetRecords

SpecPage == Init /\ [][NextPage]_vars

----------------------------------------------------------------------------
(* _merge_data of either processor class on two segment values of the      *)
(* processor's representation.                                             *)

MaxRows == 2

MergeRecords == {Record("ods047", 1), Record("ods134", 1)}

MergeRows == UNION {[1..n -> MergeRecords] : n \in 0..MaxRows}

InitMerge ==
    /\ processor \in {"EliaDataProcessor", "ImbalanceDataProcessor"}
    /\ return_type \in ReturnTypes
    /\ pre_mari_dataset_id = (IF processor = "ImbalanceDataProcessor" THEN "ods047" ELSE None)
    /\ post_mari_dataset_id = (IF processor = "ImbalanceDataProcessor" THEN "ods134" ELSE None)
    /\ pc = "merge"
    /\ pre_mari_data \in {Value(return_type, rows) : rows \in MergeRows}
    /\ post_mari_data \in {Value(return_type, rows) : rows \in MergeRows}
    /\ Idle
    /\ NoModels
    /\ opts = <<>>
    /\ response = NoResponse
    /\ calls_made = 0

MergeData ==
    /\ pc = "merge"
    /\ result' = IF processor = "ImbalanceDataProcessor"
                 THEN imbalance_merge_data(return_type, pre_mari_data, post_mari_data)
                 ELSE merge_data(return_type, pre_mari_data, post_mari_data)
    /\ pc' = "returned"
    /\ UNCHANGED <<processor, return_type, pre_mari_dataset_id, post_mari_dataset_id,
                   call, plan, segno, seg, pre_mari_data, post_mari_data, error,
                   requests, warnings, server, fault, models, own_kwargs, opts,
                   response,
                   calls_made>>

SpecMerge == InitMerge /\ [][MergeData]_vars

----------------------------------------------------------------------------
(* _merge_data on two segment values of which one at least is in the       *)
(* processor's representation, the other in any.                           *)

Returns(v) == [error |-> NoError, value |-> v]
Raises(type, message) == [error |-> Exception(type, message), value |-> NoValue]

\* what _merge_data(pre, post) may do.  It looks at return_type alone:
\* "json" evaluates pre + post, which for a list and a DataFrame is the
\* arithmetic of the DataFrame library (an exception, or for two empty
\* operands an empty frame); "pandas" reads .empty and "polars" calls
\* .is_empty(), first of pre, then of post, which a value of another
\* representation does not have
merge_outcomes(pre, post) ==
    IF pre.rep = return_type /\ post.rep = return_type
    THEN {Returns(MergeOf(pre, post))}
    ELSE IF return_type = "json"
    THEN {Raises("TypeError", "unsupported operand type(s) for +"),
          Raises("ValueError", "Unable to coerce to Series")}
         \cup (IF pre.rows = <<>> /\ post.rows = <<>>
               THEN {Returns(IF pre.rep = "json" THEN post ELSE pre)}
               ELSE {})
    ELSE IF pre.rep # return_type
    THEN {Raises("AttributeError", "no attribute 'empty' / 'is_empty'")}
    ELSE IF pre.rows = <<>>
    THEN {Returns(post)}
    ELSE {Raises("AttributeError", "no attribute 'empty' / 'is_empty'")}

InitMergeMixed ==
    /\ processor \in {"EliaDataProcessor", "ImbalanceDataProcessor"}
    /\ return_type \in ReturnTypes
    /\ pre_mari_dataset_id = (IF processor = "ImbalanceDataProcessor" THEN "ods047" ELSE None)
    /\ post_mari_dataset_id = (IF processor = "ImbalanceDataProcessor" THEN "ods134" ELSE None)
    /\ pc = "merge"
    /\ pre_mari_data \in {Value(rep, rows) : rep \in ReturnTypes, rows \in MergeRows}
    /\ post_mari_data \in {Value(rep, rows) : rep \in ReturnTypes, rows \in MergeRows}
    /\ pre_mari_data.rep = return_type \/ post_mari_data.rep = return_type
    /\ Idle
    /\ NoModels
    /\ opts = <<>>
    /\ response = NoResponse
    /\ calls_made = 0

MergeDataMixed ==
    /\ pc = "merge"
    /\ \E o \in merge_outcomes(pre_mari_data, post_mari_data) :
         /\ result' = o.value
         /\ error' = o.error
         /\ pc' = IF o.error = NoError THEN "returned" ELSE "raised"
    /\ UNCHANGED <<processor, return_type, pre_mari_dataset_id, post_mari_dataset_id,
                   call, plan, segno, seg, pre_mari_data, post_mari_data,
                   requests, warnings, server, fault, models, own_kwargs, opts,
                   response,
                   calls_made>>

SpecMergeMixed == InitMergeMixed /\ [][MergeDataMixed]_vars

----------------------------------------------------------------------------
(* ImbalanceDataProcessor.fetch_data_between on a processor constructed    *)
(* with two dataset ids; the constructor takes any two strings.            *)

ImbalanceIds ==
    { <<"ods047", "ods134">>, <<"ods045", "ods126">>,
      <<"2024-01-01", "2024-06-01">>, <<"2024-01-01", "ods134">> }

ImbalanceDateArgs ==
    { [datetime |-> dt(2024, 4, 1, 0)],
      [datetime |-> dt(2024, 4, 21, 12)],
      [datetime |-> dt(2024, 4, 22, 0)],
      [datetime |-> dt(2024, 5, 31, 0)],
      [str |-> "2024-03-31"],
      [str |-> "2024-04-22"],
      [str |-> "2024-05-10"],
      [str |-> "not-a-date"] }

ImbalanceArgs == [dataset_id : DatasetIds, start_date : ImbalanceDateArgs,
                  end_date : ImbalanceDateArgs, kwargs : Kwargs]

InitImbalance ==
    /\ processor = "ImbalanceDataProcessor"
    /\ return_type \in ReturnTypes
    /\ \E ids \in ImbalanceIds :
         /\ pre_mari_dataset_id = ids[1]
         /\ post_mari_dataset_id = ids[2]
    /\ pc = "idle"
    /\ pre_mari_data = NoValue
    /\ post_mari_data = NoValue
    /\ Idle
    /\ NoModels
    /\ opts = <<>>
    /\ response = NoResponse
    /\ calls_made = 0

ImbalanceFetchDataBetween ==
    /\ pc = "idle"
    /\ \E a \in ImbalanceArgs :
         \E srv \in [1..Len(Resolve(a).plan) -> 0..MaxMatching] : Begin(a, srv)

NextImbalance == ImbalanceFetchDataBetween \/ GetRecords \/ Export

SpecImbalance == InitImbalance /\ [][NextImbalance]_vars

----------------------------------------------------------------------------
(* Records(data) and its has_next property, on response dicts with and     *)
(* without each of the keys total_count, records and links.                *)

MaxLinks == 2

Links == { [rel |-> "next"], [rel |-> "self", href |-> "u"], [href |-> "u"],
           [rel |-> "prev"] }

LinkSeqs == UNION {[1..n -> Links] : n \in 0..MaxLinks}

ResponseData ==
    { [k \in D |-> f[k]] :
        f \in [total_count : {0, 5}, records : {<<>>, <<Record("ods001", 1)>>},
               links : LinkSeqs],
        D \in SUBSET {"total_count", "records", "links"} }

InitRecords ==
    /\ processor = "EliaDataProcessor"
    /\ return_type = "json"
    /\ pre_mari_dataset_id = None
    /\ post_mari_dataset_id = None
    /\ pc = "models"
    /\ pre_mari_data = NoValue
    /\ post_mari_data = NoValue
    /\ Idle
    /\ opts = <<>>
    /\ response = NoResponse
    /\ calls_made = 0
    /\ data \in ResponseData
    /\ records_obj = NoRecords
    /\ has_next_value = FALSE

\* Records(data)
RecordsInit ==
    /\ pc = "models"
    /\ records_obj' = records_init(data)
    /\ pc' = "constructed"
    /\ UNCHANGED <<processor, return_type, pre_mari_dataset_id, post_mari_dataset_id,
                   call, plan, segno, seg, pre_mari_data, post_mari_data, result, error,
                   requests, warnings, server, fault, data, has_next_value,
                   own_kwargs, opts, response,
                   calls_made>>

\* the read of records.has_next
HasNext ==
    /\ pc = "constructed"
    /\ has_next_value' = has_next(records_obj)
    /\ pc' = "read"
    /\ UNCHANGED <<processor, return_type, pre_mari_dataset_id, post_mari_dataset_id,
                   call, plan, segno, seg, pre_mari_data, post_mari_data, result, error,
                   requests, warnings, server, fault, data, records_obj, own_kwargs,
                   opts, response, calls_made>>

NextRecords == RecordsInit \/ HasNext

SpecRecords == InitRecords /\ [][NextRecords]_vars

----------------------------------------------------------------------------
(* A caller that makes one call after another on the same processor,       *)
(* fetch_current_value or fetch_data_between, each with **opts of the one  *)
(* dict it keeps, against a transport that answers or raises.              *)

\* lines 203-204: order_by is set only where the caller gave none
with_order_by(kw) ==
    IF "order_by" \in DOMAIN kw THEN kw ELSE [order_by |-> "datetime desc"] @@ kw

\* line 206: get_records(dataset_id, limit=1, **kwargs) with a limit among the
\* kwargs binds the keyword limit twice, which Python refuses with a TypeError
limit_twice(kw) == "limit" \in DOMAIN kw

\* the server's answer to a limit-1 query on the n records it holds, numbered
\* 1..n from the oldest to the newest
current_records(ds, n, order_by) ==
    IF n = 0 THEN <<>>
    ELSE IF order_by = "datetime desc" THEN <<Record(ds, n)>>
    ELSE <<Record(ds, 1)>>

\* calls the caller sees end
MaxCalls == 2

CallOpts ==
    { [k \in D |-> f[k]] :
        f \in [where : {"type='measured'"}, limit : {SmallLimit},
               export_data : {TRUE}, order_by : {"datetime asc"}],
        D \in SUBSET {"where", "limit", "export_data", "order_by"} }

CallDatasets == { <<None, None>>, <<None, "IMBALANCE_PRICES_QH">>, <<"ods001", None>> }

\* the fetch_data_between calls of the caller, each with **o
CallArgs(o) ==
    { [start_date |-> s, end_date |-> e, dataset_id |-> d[1], dataset_name |-> d[2],
       kwargs |-> o] :
        s \in {[datetime |-> dt(2024, 4, 1, 0)], [str |-> "2024-05-22"]},
        e \in {[datetime |-> dt(2024, 5, 21, 12)], [datetime |-> dt(2024, 5, 31, 0)]},
        d \in CallDatasets }

InitCalls ==
    /\ processor = "EliaDataProcessor"
    /\ return_type \in ReturnTypes
    /\ pre_mari_dataset_id = None
    /\ post_mari_dataset_id = None
    /\ pc = "idle"
    /\ pre_mari_data = NoValue
    /\ post_mari_data = NoValue
    /\ Idle
    /\ NoModels
    /\ opts \in CallOpts
    /\ response = NoResponse
    /\ calls_made = 0

\* fetch_data_between(..., **opts)
CallFetchDataBetween ==
    /\ pc = "idle"
    /\ \E a \in CallArgs(opts) :
         \E srv \in [1..Len(resolve(a).plan) -> {0, MaxMatching}] : Begin(a, srv)

\* fetch_current_value(dataset_id, **opts) up to its transport call, against a
\* server holding n records of the dataset
FetchCurrentValue ==
    /\ pc = "idle"
    /\ \E dataset_id \in {"ods001"} : \E n \in 0..MaxMatching :
         /\ call' = [method |-> "fetch_current_value", dataset_id |-> dataset_id,
                     kwargs |-> opts]
         /\ server' = <<n>>
    /\ own_kwargs' = with_order_by(opts)
    /\ pc' = "current_value"
    /\ UNCHANGED <<processor, return_type, pre_mari_dataset_id, post_mari_dataset_id,
                   plan, segno, seg, pre_mari_data, post_mari_data, result, error,
                   requests, warnings, fault, models, opts, response,
                   calls_made>>

\* line 206-208: the one get_records call of fetch_current_value, answered
CurrentValueGetRecords ==
    /\ pc = "current_value"
    /\ IF limit_twice(own_kwargs)
       THEN /\ pc' = "raised"
            /\ error' = Exception("TypeError",
                                  "got multiple values for keyword argument 'limit'")
            /\ UNCHANGED <<requests, result, opts>>
       ELSE /\ requests' = Append(requests,
                    Request("get_records", call.dataset_id, [limit |-> 1] @@ own_kwargs))
            /\ result' = format_output(return_type,
                             current_records(call.dataset_id, server[1],
                                             own_kwargs.order_by))
            /\ pc' = "returned"
            /\ opts' = star_star(opts, own_kwargs)
            /\ UNCHANGED error
    /\ UNCHANGED <<processor, return_type, pre_mari_dataset_id, post_mari_dataset_id,
                   call, plan, segno, seg, pre_mari_data, post_mari_data, warnings,
                   server, fault, models, own_kwargs, response,
                   calls_made>>

\* the same call, the transport raising e
CurrentValueRaises ==
    /\ pc = "current_value"
    /\ ~limit_twice(own_kwargs)
    /\ \E e \in TransportErrors :
         /\ fault' = e
         /\ error' = e
    /\ requests' = Append(requests,
            Request("get_records", call.dataset_id, [limit |-> 1] @@ own_kwargs))
    /\ pc' = "raised"
    /\ UNCHANGED <<processor, return_type, pre_mari_dataset_id, post_mari_dataset_id,
                   call, plan, segno, seg, pre_mari_data, post_mari_data, result,
                   warnings, server, models, own_kwargs, opts, response,
                   calls_made>>

\* the call is over: the caller has its value or its exception, the frames of
\* the call and their locals are gone; the processor object and the caller's
\* dict stay
CallOver ==
    /\ pc \in {"returned", "raised"}
    /\ pc' = "idle"
    /\ call' = NoCall
    /\ plan' = <<>>
    /\ segno' = 0
    /\ seg' = NoFrame
    /\ pre_mari_data' = NoValue
    /\ post_mari_data' = NoValue
    /\ result' = NoValue
    /\ error' = NoError
    /\ requests' = <<>>
    /\ warnings' = <<>>
    /\ server' = <<>>
    /\ fault' = NoError
    /\ own_kwargs' = <<>>
    /\ calls_made < MaxCalls
    /\ calls_made' = calls_made + 1
    /\ UNCHANGED <<processor, return_type, pre_mari_dataset_id, post_mari_dataset_id,
                   models, opts, response>>

NextCalls ==
    \/ CallFetchDataBetween
    \/ FetchCurrentValue
    \/ CurrentValueGetRecords
    \/ CurrentValueRaises
    \/ GetRecords
    \/ Export
    \/ GetRecordsRaises
    \/ ExportRaises
    \/ CallOver

SpecCalls == InitCalls /\ [][NextCalls]_vars

----------------------------------------------------------------------------
(* EliaClient.get_records (client.py) against an HTTP layer that answers   *)
(* with a status and a body, or fails before any answer.                   *)

\* error.py: the exception classes, by name and message
RateLimitError(message) == Exception("RateLimitError", message)
APIError(message) == Exception("APIError", message)

\* the classes client.py imports from error.py under these names
AuthError(message) == Exception("AuthError", message)
EliaConnectionError(message) == Exception("ConnectionError", message)

\* str(e) of the HTTPError raise_for_status raises
http_error_str(status) ==
    ToString(status) \o (IF status < 500 THEN " Client Error" ELSE " Server Error")

\* faulty variant: the branch for 401 is missing
handle_http_error_no_auth(status) ==
    IF status = 429 THEN RateLimitError("API rate limit exceeded")
    ELSE APIError("API request failed: " \o http_error_str(status))

\* _handle_http_error
handle_http_error(status) ==
    IF status = 429 THEN RateLimitError("API rate limit exceeded")
    ELSE IF status = 401 THEN AuthError("Authentication failed")
    ELSE APIError("API request failed: " \o http_error_str(status))

\* an argument left at its default None
NoParam == [absent |-> TRUE]

\* lines 81-90: the query parameters
build_params(a) ==
    LET given == {k \in {"limit", "offset", "where"} : a[k] # NoParam}
    IN  a.kwargs @@ [k \in given |-> a[k]]

\* Response.raise_for_status: the statuses it raises HTTPError for
is_http_error(status) == 400 <= status /\ status < 600

\* lines 92-106: what get_records does with the answer r.  A body that is
\* not JSON makes response.json() raise: an exception that is a
\* RequestException in the newer releases of requests the package admits
\* (caught at line 105) and a plain ValueError in the older ones (not caught)
get_records_outcomes(r) ==
    IF r.failure # None
    THEN {[error |-> EliaConnectionError("Connection failed: " \o r.failure),
           value |-> NoValue]}
    ELSE IF is_http_error(r.status)
    THEN {[error |-> handle_http_error(r.status), value |-> NoValue]}
    ELSE IF r.json
    THEN {Returns(Value("json", r.body))}
    ELSE {[error |-> EliaConnectionError("Connection failed: Expecting value"),
           value |-> NoValue],
          Raises("JSONDecodeError", "Expecting value")}

Statuses == {200, 400, 401, 403, 404, 429, 500, 503}

Failures == {"Max retries exceeded", "Read timed out", "Exceeded 30 redirects"}

Responses ==
    { [status |-> st, failure |-> None, json |-> TRUE, body |-> <<>>] : st \in Statuses }
    \cup { [status |-> 200, failure |-> None, json |-> j, body |-> b] :
             j \in BOOLEAN, b \in {<<>>, <<Record("ods001", 1)>>} }
    \cup { [status |-> 0, failure |-> f, json |-> TRUE, body |-> <<>>] : f \in Failures }

ClientArgs ==
    [dataset_id : {"ods001"}, limit : {NoParam, [int |-> 1], [int |-> 100]},
     offset : {NoParam, [int |-> 0]}, where : {NoParam, [str |-> "type='measured'"]},
     kwargs : {<<>>, [order_by |-> "datetime desc"]}]

InitClient ==
    /\ processor = "EliaClient"
    /\ return_type = "json"
    /\ pre_mari_dataset_id = None
    /\ post_mari_dataset_id = None
    /\ pc = "client"
    /\ pre_mari_data = NoValue
    /\ post_mari_data = NoValue
    /\ Idle
    /\ NoModels
    /\ opts = <<>>
    /\ response \in Responses
    /\ calls_made = 0

\* get_records(a.dataset_id, a.limit, a.offset, a.where, **a.kwargs)
ClientGetRecords ==
    /\ pc = "client"
    /\ \E a \in ClientArgs :
         /\ call' = a
         /\ requests' = Append(requests, Request("GET", a.dataset_id, build_params(a)))
    /\ \E o \in get_records_outcomes(response) :
         /\ result' = o.value
         /\ error' = o.error
         /\ pc' = IF o.error = NoError THEN "returned" ELSE "raised"
    /\ UNCHANGED <<processor, return_type, pre_mari_dataset_id, post_mari_dataset_id,
                   plan, segno, seg, pre_mari_data, post_mari_data, warnings, server,
                   fault, models, own_kwargs, opts, response, calls_made>>

SpecClient == InitClient /\ [][ClientGetRecords]_vars

----------------------------------------------------------------------------
(* The paginator over the segments of a call by dataset name: batch sizes  *)
(* small enough for several pages per segment.                             *)

\* records the server holds for one segment's query
MaxSegmentMatching == 5

SegmentKwargs ==
    { [limit |-> SmallLimit], [limit |-> SmallLimit + 1],
      [limit |-> SmallLimit, where |-> "type='measured'"] }

SegmentArgs ==
    [start_date : {[datetime |-> dt(2024, 4, 1, 0)], [str |-> "2024-05-22"]},
     end_date : {[datetime |-> dt(2024, 5, 21, 12)], [datetime |-> dt(2024, 5, 31, 0)]},
     dataset_id : {None}, dataset_name : {"IMBALANCE_PRICES_QH"},
     kwargs : SegmentKwargs]

FetchDataBetweenSegments ==
    /\ pc = "idle"
    /\ \E a \in SegmentArgs :
         \E srv \in [1..Len(resolve(a).plan) -> 0..MaxSegmentMatching] : Begin(a, srv)

NextSegments == FetchDataBetweenSegments \/ GetRecords

SpecSegments == Init /\ [][NextSegments]_vars

----------------------------------------------------------------------------
(* The paginator against a server that answers a page request with as many *)
(* records as it likes: none, fewer than the batch size, the batch size,   *)
(* or more.                                                                *)

AnyLimits == {2000, 2500, 3334, 5000, 10000, 10001}

AnyLengths(limit) == {0, limit - 1, limit, limit + 1}

\* a page of len records
AnyPage(ds, offset, len) == [k \in 1..len |-> Record(ds, offset + k)]

AnyServerArgs ==
    [start_date : {[datetime |-> dt(2024, 6, 1, 0)]},
     end_date : {[str |-> "2024-06-30"]},
     dataset_id : {"ods001"}, dataset_name : {None},
     kwargs : {[limit |-> l] : l \in AnyLimits}]

FetchDataBetweenAnyServer ==
    /\ pc = "idle"
    /\ \E a \in AnyServerArgs : Begin(a, <<0>>)

GetRecordsAnyServer ==
    /\ pc = "paginate"
    /\ \E len \in AnyLengths(seg.limit) :
         Turn(AnyPage(seg.dataset_id, seg.offset, len))

NextAnyServer == FetchDataBetweenAnyServer \/ GetRecordsAnyServer

SpecAnyServer == Init /\ [][NextAnyServer]_vars

----------------------------------------------------------------------------
(* Properties *)

TransitionInstant == dt(2024, 5, 22, 0)

Known(a) == a.dataset_name \in DOMAIN DATASET_NAME_MAPPING

Parsable(a) ==
    /\ isinstance_str(a.start_date) => is_iso(a.start_date.str)
    /\ isinstance_str(a.end_date) => is_iso(a.end_date.str)

\* the instant a date argument denotes
ArgDt(x) == IF isinstance_str(x) THEN fromisoformat(x.str) ELSE x.datetime

\* the date argument as it is written in a filter
ArgStr(x) == IF isinstance_str(x) THEN x.str ELSE strftime(x.datetime)

\* the filter of a request for the range s..e of the running call
WhereFor(a, s, e) ==
    LET clause == "datetime IN [date'" \o s \o "'..date'" \o e \o "']"
    IN  IF "where" \in DOMAIN a.kwargs
        THEN "(" \o a.kwargs.where \o ") AND (" \o clause \o ")"
        ELSE clause

PreId(a) == DATASET_NAME_MAPPING[a.dataset_name].pre_mari
PostId(a) == DATASET_NAME_MAPPING[a.dataset_name].post_mari

InCall == pc \in {"paginate", "export", "returned", "raised"}

RECURSIVE Dedup(_)
Dedup(q) ==
    IF Len(q) <= 1 THEN q
    ELSE IF q[1] = q[2] THEN Dedup(Tail(q))
    ELSE <<q[1]>> \o Dedup(Tail(q))

\* the (dataset id, filter) pairs the call has queried, in order
SegmentsQueried ==
    Dedup([i \in DOMAIN requests |->
              <<requests[i].dataset_id, requests[i].params.where>>])

\* the page the server gave to the i-th request of a single-segment call
PageOf(i) ==
    ServerPage(requests[i].dataset_id, server[1],
               requests[i].params.offset, requests[i].params.limit)

IsFull(i) == Len(PageOf(i)) = requests[i].params.limit

\* C1: with a known dataset_name and end_date before 2024-05-22, every
\* request goes to the name's pre_mari id with the caller's range, none to
\* the post_mari id.
C1_PreOnlyRouting ==
    (InCall /\ Known(call) /\ Parsable(call)
        /\ dt_lt(ArgDt(call.end_date), TransitionInstant))
    => /\ \A i \in DOMAIN requests :
            /\ requests[i].dataset_id = PreId(call)
            /\ requests[i].dataset_id # PostId(call)
            /\ requests[i].params.where =
                   WhereFor(call, ArgStr(call.start_date), ArgStr(call.end_date))
       /\ pc = "returned" => requests # <<>>

C1_Witness ==
    /\ pc = "returned"
    /\ call.dataset_name = "IMBALANCE_PRICES_QH"
    /\ call.start_date = [datetime |-> dt(2024, 4, 1, 0)]
    /\ call.end_date = [datetime |-> dt(2024, 5, 21, 12)]
    /\ Len(requests) = 2
    /\ requests[2].dataset_id = "ods047"

\* C2: with a known dataset_name and start_date on or after 2024-05-22,
\* every request goes to the name's post_mari id with the caller's range,
\* none to the pre_mari id.
C2_PostOnlyRouting ==
    (InCall /\ Known(call) /\ Parsable(call)
        /\ dt_ge(ArgDt(call.start_date), TransitionInstant))
    => /\ \A i \in DOMAIN requests :
            /\ requests[i].dataset_id = PostId(call)
            /\ requests[i].dataset_id # PreId(call)
            /\ requests[i].params.where =
                   WhereFor(call, ArgStr(call.start_date), ArgStr(call.end_date))
       /\ pc = "returned" => requests # <<>>

\* The routing of C2 restricted to ranges with start_date <= end_date, the
\* only ranges for which case 2 of fetch_data_between decides.
PostOnlyRoutingOrdered ==
    (InCall /\ Known(call) /\ Parsable(call)
        /\ dt_ge(ArgDt(call.start_date), TransitionInstant)
        /\ dt_ge(ArgDt(call.end_date), ArgDt(call.start_date)))
    => /\ \A i \in DOMAIN requests :
            /\ requests[i].dataset_id = PostId(call)
            /\ requests[i].params.where =
                   WhereFor(call, ArgStr(call.start_date), ArgStr(call.end_date))
       /\ pc = "returned" => requests # <<>>

\* C3: with a known dataset_name and start_date < 2024-05-22 <= end_date,
\* exactly two segments are queried: the pre_mari id for start_date to
\* 2024-05-21, then the post_mari id for 2024-05-22 to end_date.
C3_StraddlingSegments ==
    (InCall /\ Known(call) /\ Parsable(call)
        /\ dt_lt(ArgDt(call.start_date), TransitionInstant)
        /\ dt_ge(ArgDt(call.end_date), TransitionInstant))
    => LET pre == <<PreId(call),
                    WhereFor(call, ArgStr(call.start_date), "2024-05-21")>>
           post == <<PostId(call),
                     WhereFor(call, "2024-05-22", ArgStr(call.end_date))>>
       IN  /\ SegmentsQueried \in {<<>>, <<pre>>, <<pre, post>>}
           /\ pc = "returned" => SegmentsQueried = <<pre, post>>
           /\ pc # "raised"

C3_Witness ==
    /\ pc = "returned"
    /\ call.dataset_name = "IMBALANCE_PRICES_QH"
    /\ call.start_date = [datetime |-> dt(2024, 4, 1, 0)]
    /\ call.end_date = [datetime |-> dt(2024, 5, 31, 0)]
    /\ "where" \notin DOMAIN call.kwargs
    /\ SegmentsQueried =
         << <<"ods047", "datetime IN [date'2024-04-01'..date'2024-05-21']">>,
            <<"ods134", "datetime IN [date'2024-05-22'..date'2024-05-31']">> >>

\* C4: the result of a straddling query is the pre segment's records, in
\* the order fetched, followed by the post segment's records, in the order
\* fetched: nothing reordered, dropped or duplicated.
C4_MergeOrder ==
    (pc = "returned" /\ Len(plan) = 2)
    => LET n == Len(pre_mari_data.rows)
           m == Len(post_mari_data.rows)
       IN  /\ result.rep = return_type
           /\ Len(result.rows) = n + m
           /\ \A i \in 1..n : result.rows[i] = pre_mari_data.rows[i]
           /\ \A j \in 1..m : result.rows[n + j] = post_mari_data.rows[j]
           /\ \A i \in 1..n : pre_mari_data.rows[i].ds = plan[1].dataset_id
           /\ \A j \in 1..m : post_mari_data.rows[j].ds = plan[2].dataset_id

C4_Witness ==
    /\ pc = "returned"
    /\ Len(plan) = 2
    /\ return_type = "json"
    /\ Len(requests) = 4
    /\ result.rows = <<Record("ods047", 1), Record("ods047", 2), Record("ods047", 3),
                       Record("ods134", 1), Record("ods134", 2)>>

C6_MergeWithEmpty ==
    pc = "returned"
    => /\ (pre_mari_data.rows = <<>> /\ post_mari_data.rows # <<>>)
            => result = post_mari_data
       /\ (post_mari_data.rows = <<>> /\ pre_mari_data.rows # <<>>)
            => result = pre_mari_data

C6_Witness ==
    /\ pc = "returned"
    /\ processor = "ImbalanceDataProcessor"
    /\ return_type = "polars"
    /\ Len(pre_mari_data.rows) = 2
    /\ post_mari_data.rows = <<>>
    /\ result = pre_mari_data

C8_CeilingStop ==
    (pc = "returned" /\ requests # <<>> /\ \A i \in DOMAIN requests : IsFull(i))
    => LET k == Len(requests)
       IN  /\ warnings = <<"Reached maximum pagination limit.">>
           /\ error = NoError
           /\ result = Value(return_type,
                             ServerPage(seg.dataset_id, server[1], 0, k * seg.limit))
           /\ seg.offset = k * seg.limit
           /\ seg.offset + seg.limit > 10000
           /\ k > 1 => requests[k].params.offset + seg.limit <= 10000

C8_Witness ==
    /\ pc = "returned"
    /\ server = <<30000>>
    /\ seg.limit = 100
    /\ Len(requests) = 100
    /\ Len(result.rows) = 10000
    /\ warnings # <<>>

C10_NeitherGiven ==
    (InCall /\ call.dataset_id = None /\ call.dataset_name = None)
    => /\ pc = "raised"
       /\ error = Exception("ValueError",
                            "Either dataset_id or dataset_name must be provided")
       /\ requests = <<>>

C10_Witness ==
    /\ pc = "raised"
    /\ call.dataset_id = None
    /\ call.dataset_name = None
    /\ call.start_date = [datetime |-> dt(2024, 4, 1, 0)]
    /\ "export_data" \in DOMAIN call.kwargs
    /\ requests = <<>>

\* C11 as stated: a call whose start_date is later than its end_date is
\* rejected with an error before any transport request, whether the dataset
\* is given by id or by name.
C11_InvertedRangeRejected ==
    (InCall /\ ~neither_given(call.dataset_id, call.dataset_name) /\ Parsable(call)
        /\ dt_lt(ArgDt(call.end_date), ArgDt(call.start_date)))
    => /\ pc = "raised"
       /\ requests = <<>>

\* C12: a call whose dataset_name is not a key of DATASET_NAME_MAPPING
\* raises ValueError and issues no request, also when a dataset_id comes
\* with it; with dates that parse, the ValueError is the one of the name check.
C12_UnknownName ==
    (InCall /\ call.dataset_name # None /\ ~Known(call))
    => /\ pc = "raised"
       /\ error.type = "ValueError"
       /\ requests = <<>>
       /\ Parsable(call) =>
            error.message = "Dataset name not found in DATASET_NAME_MAPPING"

C12_Witness ==
    /\ pc = "raised"
    /\ call.dataset_name = "NO_SUCH_NAME"
    /\ call.dataset_id = "ods001"
    /\ call.start_date = [datetime |-> dt(2024, 4, 1, 0)]
    /\ call.end_date = [str |-> "2024-05-22"]
    /\ error.message = "Dataset name not found in DATASET_NAME_MAPPING"
    /\ requests = <<>>

\* C13: when a transport call raises, the call raises that same exception
\* at once: the failing request is the last request of the call, nothing is
\* retried or requested afterwards, and no value is returned (the records
\* accumulated so far are dropped).
C13_TransportErrorPropagates ==
    [][ /\ fault = NoError
        /\ fault' # NoError =>
              /\ pc' = "raised"
              /\ error' = fault'
              /\ result' = NoValue
              /\ Len(requests') = Len(requests) + 1 ]_vars

C13_Witness ==
    /\ pc = "raised"
    /\ fault = Exception("APIError", "API request failed")
    /\ error = fault
    /\ segno = 2
    /\ Len(pre_mari_data.rows) = 3
    /\ seg.all_records # <<>>
    /\ result = NoValue

\* C14: the filter of every request is the date clause of its segment,
\* alone when the caller gave no where clause, and otherwise the caller's
\* clause and the date clause, each in its own parentheses, joined by AND.
C14_WhereCombined ==
    \A i \in DOMAIN requests :
      \E k \in 1..segno :
        LET clause == "datetime IN [date'" \o plan[k].start_date_str
                          \o "'..date'" \o plan[k].end_date_str \o "']"
        IN  /\ requests[i].dataset_id = plan[k].dataset_id
            /\ requests[i].params.where =
                  IF "where" \in DOMAIN call.kwargs
                  THEN "(" \o call.kwargs.where \o ") AND (" \o clause \o ")"
                  ELSE clause

C14_Witness ==
    /\ pc = "returned"
    /\ call.dataset_name = "IMBALANCE_PRICES_QH"
    /\ "where" \in DOMAIN call.kwargs
    /\ call.kwargs.where = "a = 1 OR b = 2"
    /\ Len(requests) = 2
    /\ requests[1].params.where =
         "(a = 1 OR b = 2) AND (datetime IN [date'2024-04-01'..date'2024-05-21'])"
    /\ requests[2].params.where =
         "(a = 1 OR b = 2) AND (datetime IN [date'2024-05-22'..date'2024-05-31'])"

\* C15: with export_data true every segment is served by exactly one export
\* request to its dataset, and no get_records request is issued.
C15_ExportBypassesPaginator ==
    (InCall /\ pc # "raised" /\ "export_data" \in DOMAIN call.kwargs
        /\ call.kwargs.export_data)
    => /\ \A i \in DOMAIN requests :
            /\ requests[i].method = "export"
            /\ requests[i].dataset_id = plan[i].dataset_id
       /\ Len(requests) = (IF pc = "returned" THEN Len(plan) ELSE segno - 1)

C15_Witness ==
    /\ pc = "returned"
    /\ "export_data" \in DOMAIN call.kwargs
    /\ call.kwargs.export_data
    /\ Len(plan) = 2
    /\ server = <<3, 3>>
    /\ Len(requests) = 2
    /\ requests[1].method = "export"
    /\ requests[2].method = "export"
    /\ Len(result.rows) = 6

\* C16: an export request asks for parquet exactly when return_type is
\* pandas or polars and for json exactly when it is json, and in both cases
\* the segment values and the result are of the representation return_type.
C16_ExportFormat ==
    /\ \A i \in DOMAIN requests :
         requests[i].method = "export"
         => /\ requests[i].params.export_format = "parquet"
                 <=> return_type \in {"pandas", "polars"}
            /\ requests[i].params.export_format = "json" <=> return_type = "json"
    /\ (seg.mode = "export" /\ segno = 2) => pre_mari_data.rep = return_type
    /\ (seg.mode = "export" /\ pc = "returned")
         => /\ result.rep = return_type
            /\ Len(plan) = 2 => post_mari_data.rep = return_type

C16_Witness ==
    /\ pc = "returned"
    /\ return_type = "polars"
    /\ Len(plan) = 2
    /\ Len(requests) = 2
    /\ requests[2].method = "export"
    /\ requests[2].params.export_format = "parquet"
    /\ pre_mari_data = Value("polars", <<Record("ods047", 1)>>)
    /\ result.rep = "polars"
    /\ Len(result.rows) = 3

\* C17: has_next is true exactly when some mapping of the response's links
\* has rel "next"; without a links key has_next is false, without a
\* total_count key total_count is 0, without a records key records is empty.
C17_HasNext ==
    /\ pc = "read" =>
         (has_next_value <=>
            /\ "links" \in DOMAIN data
            /\ \E i \in DOMAIN data.links :
                 "rel" \in DOMAIN data.links[i] /\ data.links[i].rel = "next")
    /\ pc \in {"constructed", "read"} =>
         /\ "total_count" \notin DOMAIN data => records_obj.total_count = 0
         /\ "total_count" \in DOMAIN data => records_obj.total_count = data.total_count
         /\ "records" \notin DOMAIN data => records_obj.records = <<>>
         /\ "records" \in DOMAIN data => records_obj.records = data.records

C17_Witness ==
    /\ pc = "read"
    /\ DOMAIN data = {"links"}
    /\ data.links = <<[href |-> "u"], [rel |-> "next"]>>
    /\ has_next_value
    /\ records_obj.total_count = 0
    /\ records_obj.records = <<>>

\* the processor was constructed with the pre and post ids of a name of
\* DATASET_NAME_MAPPING
OfFamily ==
    \E n \in DOMAIN DATASET_NAME_MAPPING :
        /\ DATASET_NAME_MAPPING[n].pre_mari = pre_mari_dataset_id
        /\ DATASET_NAME_MAPPING[n].post_mari = post_mari_dataset_id

FamilyName ==
    CHOOSE n \in DOMAIN DATASET_NAME_MAPPING :
        /\ DATASET_NAME_MAPPING[n].pre_mari = pre_mari_dataset_id
        /\ DATASET_NAME_MAPPING[n].post_mari = post_mari_dataset_id

\* What the code does for a processor constructed with a family's ids: the
\* super() call binds the id to the parent's start_date, which
\* datetime.fromisoformat rejects, so every call raises ValueError before
\* any request.
ImbalanceFamilyRaises ==
    (InCall /\ OfFamily)
    => /\ pc = "raised"
       /\ error = Exception("ValueError", "Invalid isoformat string")
       /\ requests = <<>>

\* C18 as stated: an ImbalanceDataProcessor constructed with a family's ids
\* queries, for every date range, the segments that
\* EliaDataProcessor.fetch_data_between queries for the family's name.
C18_SameSegments ==
    (InCall /\ OfFamily /\ Parsable(call))
    => LET by_name == resolve([start_date |-> call.start_date,
                               end_date |-> call.end_date,
                               dataset_id |-> None, dataset_name |-> FamilyName,
                               kwargs |-> call.kwargs])
       IN  /\ plan = by_name.plan
           /\ pc = "raised" <=> by_name.error # NoError

\* C19 as stated: an ImbalanceDataProcessor queries only its pre id, with
\* the caller's range, when both dates are before 2024-04-22, only its post
\* id when both are on or after it, and both ids, merging the two results,
\* when the range spans it.
C19_ImbalanceRouting ==
    (InCall /\ Parsable(call))
    => LET s == ArgDt(call.start_date)
           e == ArgDt(call.end_date)
           T == dt(2024, 4, 22, 0)
           range == WhereFor(call, ArgStr(call.start_date), ArgStr(call.end_date))
       IN  /\ (dt_lt(s, T) /\ dt_lt(e, T))
                => /\ pc # "raised"
                   /\ \A i \in DOMAIN requests :
                        /\ requests[i].dataset_id = pre_mari_dataset_id
                        /\ requests[i].params.where = range
           /\ (dt_ge(s, T) /\ dt_ge(e, T))
                => /\ pc # "raised"
                   /\ \A i \in DOMAIN requests :
                        /\ requests[i].dataset_id = post_mari_dataset_id
                        /\ requests[i].params.where = range
           /\ (dt_lt(s, T) /\ dt_ge(e, T))
                => /\ pc # "raised"
                   /\ \A i \in DOMAIN requests :
                        requests[i].dataset_id
                            \in {pre_mari_dataset_id, post_mari_dataset_id}
                   /\ pc = "returned"
                        => /\ Len(plan) = 2
                           /\ result = imbalance_merge_data(return_type, pre_mari_data,
                                                            post_mari_data)

\* C20: given both a dataset_id and a dataset_name of the mapping, every
\* request goes to the pre or post id of the name and none to the
\* dataset_id supplied.
C20_NamePrecedence ==
    (InCall /\ call.dataset_id # None /\ Known(call))
    => /\ \A i \in DOMAIN requests :
            /\ requests[i].dataset_id \in {PreId(call), PostId(call)}
            /\ requests[i].dataset_id # call.dataset_id
       /\ \A k \in DOMAIN plan : plan[k].dataset_id # call.dataset_id
       /\ Parsable(call) => pc # "raised"
       /\ pc = "returned" => requests # <<>>

C20_Witness ==
    /\ pc = "returned"
    /\ call.dataset_id = "ods001"
    /\ call.dataset_name = "IMBALANCE_PRICES_QH"
    /\ Len(requests) = 3
    /\ requests[1].dataset_id = "ods047"
    /\ requests[3].dataset_id = "ods134"

----------------------------------------------------------------------------
IsCurrentValue == "method" \in DOMAIN call

\* what C21 asks of a finished fetch_current_value call
CurrentValueContract ==
    /\ Len(requests) = 1
    /\ requests[1].method = "get_records"
    /\ requests[1].dataset_id = call.dataset_id
    /\ requests[1].params.limit = 1
    /\ "offset" \notin DOMAIN requests[1].params
    /\ requests[1].params.order_by = Get(call.kwargs, "order_by", "datetime desc")
    /\ pc = "returned" =>
         /\ result.rep = return_type
         /\ Len(result.rows) <= 1
         /\ (server[1] > 0 /\ requests[1].params.order_by = "datetime desc") =>
              result.rows = <<Record(call.dataset_id, server[1])>>

\* C21: a finished fetch_current_value call has issued exactly one
\* get_records request, with limit 1, no offset, and the caller's order_by or,
\* where the caller gave none, "datetime desc"; what it returns is in the
\* processor's return_type representation and holds at most one record, the
\* newest one under the default ordering.
C21_CurrentValue ==
    (IsCurrentValue /\ pc \in {"returned", "raised"}) => CurrentValueContract

\* the same for the calls that pass no limit of their own
CurrentValueWithoutLimit ==
    (IsCurrentValue /\ pc \in {"returned", "raised"}
        /\ "limit" \notin DOMAIN call.kwargs) => CurrentValueContract

CurrentValueWithoutLimitReached ==
    /\ IsCurrentValue
    /\ pc = "returned"
    /\ "order_by" \in DOMAIN call.kwargs
    /\ result.rows # <<>>

----------------------------------------------------------------------------
\* C22: a merge of two segment values that are not in the same
\* representation ends with a MergeTypeMismatch error and never with a value.
C22_MergeTypeMismatch ==
    (pc \in {"returned", "raised"} /\ pre_mari_data.rep # post_mari_data.rep) =>
        /\ pc = "raised"
        /\ error.type = "MergeTypeMismatch"
        /\ result = NoValue

\* the merges of two values in the processor's representation return
MergeOfOneRepresentationReturns ==
    (pc \in {"returned", "raised"} /\ pre_mari_data.rep = post_mari_data.rep) =>
        /\ pc = "returned"
        /\ result = MergeOf(pre_mari_data, post_mari_data)

----------------------------------------------------------------------------
\* the rows the k-th _fetch_data_for_period call of the running call may
\* return, by the arguments of the call and the server's answers alone
ExpectedSegment(k) ==
    LET ds == resolve(call).plan[k].dataset_id
        all == ServerPage(ds, server[k], 0, server[k])
    IN  IF export_data(call.kwargs) /\ export_format(return_type) = "json"
        THEN {all, <<Record(ds, 0)>>}
        ELSE {all}

ExpectedRows ==
    IF Len(resolve(call).plan) = 1 THEN ExpectedSegment(1)
    ELSE {a \o b : a \in ExpectedSegment(1), b \in ExpectedSegment(2)}

ExpectedWheres ==
    { combine_where(call.kwargs,
                    date_filter(resolve(call).plan[k].start_date_str,
                                resolve(call).plan[k].end_date_str)).where :
        k \in 1..Len(resolve(call).plan) }

\* what a call has asked and returned is a function of its arguments, of the
\* processor's return_type and of the server's answers
IndependentResult ==
    pc = "returned" =>
        IF IsCurrentValue
        THEN /\ requests = <<Request("get_records", call.dataset_id,
                                     [limit |-> 1] @@ with_order_by(call.kwargs))>>
             /\ result = format_output(return_type,
                             current_records(call.dataset_id, server[1],
                                 Get(call.kwargs, "order_by", "datetime desc")))
        ELSE /\ plan = resolve(call).plan
             /\ result.rep = return_type
             /\ result.rows \in ExpectedRows
             /\ \A i \in 1..Len(requests) :
                  /\ requests[i].params.where \in ExpectedWheres
                  /\ requests[i].method =
                       (IF export_data(call.kwargs) THEN "export" ELSE "get_records")

\* C23: no step of a sequence of fetch_current_value and fetch_data_between
\* calls, ending well or with an exception, changes the processor object
\* (its class, return_type, dataset ids) or the dict the caller unpacks into
\* its calls, and what a call has requested and returned when it returns is
\* determined by its own arguments and the server's answers to it.
C23_NoSharedState ==
    [][ /\ processor' = processor
        /\ return_type' = return_type
        /\ pre_mari_dataset_id' = pre_mari_dataset_id
        /\ post_mari_dataset_id' = post_mari_dataset_id
        /\ opts' = opts
        /\ IndependentResult' ]_vars

C23_Witness ==
    /\ calls_made >= 1
    /\ pc = "returned"
    /\ ~IsCurrentValue
    /\ Len(plan) = 2
    /\ "where" \in DOMAIN opts
    /\ Len(requests) >= 3
    /\ result.rows # <<>>

----------------------------------------------------------------------------
\* the request failed: no answer came, or one with an HTTP error status
FailedRequest == response.failure # None \/ is_http_error(response.status)

----------------------------------------------------------------------------
\* the segment the i-th request belongs to
SegIndex(i) == IF requests[i].dataset_id = plan[1].dataset_id THEN 1 ELSE 2

\* the i-th request is the first of its segment
FirstOfSegment(i) == i = 1 \/ SegIndex(i - 1) # SegIndex(i)

\* the page the server gave to the i-th request
SegmentPage(i) ==
    ServerPage(requests[i].dataset_id, server[SegIndex(i)],
               requests[i].params.offset, requests[i].params.limit)

\* the pages of the requests i..j, one after the other
RECURSIVE Pages(_, _)
Pages(i, j) == IF i > j THEN <<>> ELSE SegmentPage(i) \o Pages(i + 1, j)

\* the first request of the segment running now
FirstOfRunning ==
    CHOOSE i \in 1..(Len(requests) + 1) :
        /\ i <= Len(requests) => SegIndex(i) = segno
        /\ \A j \in 1..(i - 1) : SegIndex(j) # segno

\* C25: in pagination mode the first request of a segment has offset 0 and
\* every later one the offset of the request before it plus the batch size,
\* with the same limit and filter (offsets 0, b, 2b, ...); a request is
\* issued only when the pages of all earlier ones have been added to the
\* segment's records, and the value returned is the pages in request order.
C25_SequentialPages ==
    (InCall /\ plan # <<>>
        /\ (Len(plan) = 2 => plan[1].dataset_id # plan[2].dataset_id)) =>
        /\ \A i \in DOMAIN requests :
             /\ requests[i].method = "get_records"
             /\ requests[i].params.limit = Get(call.kwargs, "limit", DefaultLimit)
             /\ requests[i].params.limit >= 1
             /\ IF FirstOfSegment(i)
                THEN requests[i].params.offset = 0
                ELSE /\ requests[i].params.offset =
                          requests[i - 1].params.offset + requests[i - 1].params.limit
                     /\ requests[i].params.offset > requests[i - 1].params.offset
                     /\ requests[i].params.limit = requests[i - 1].params.limit
                     /\ requests[i].params.where = requests[i - 1].params.where
                     /\ SegIndex(i) >= SegIndex(i - 1)
        /\ pc = "paginate" =>
             seg.all_records = Pages(FirstOfRunning, Len(requests))
        /\ pc = "returned" =>
             result = Value(return_type, Pages(1, Len(requests)))

C25_Witness ==
    /\ pc = "returned"
    /\ Len(plan) = 2
    /\ Len(requests) >= 5
    /\ requests[3].dataset_id = plan[1].dataset_id
    /\ requests[3].params.offset = 2 * SmallLimit
    /\ \E i \in DOMAIN requests :
         /\ SegIndex(i) = 2
         /\ requests[i].params.offset = SmallLimit
         /\ SegmentPage(i) # <<>>

----------------------------------------------------------------------------
\* C26: in a call that straddles the transition no request for the post-MARI
\* dataset is issued before the fetch of the pre-MARI period has returned
\* its value, and none for the pre-MARI dataset after one for the post-MARI
\* dataset: the requests of the two segments do not interleave.
C26_PreBeforePost ==
    (InCall /\ Known(call) /\ Parsable(call) /\ Len(plan) = 2) =>
        /\ \A i, j \in DOMAIN requests :
             (i < j /\ requests[i].dataset_id = PostId(call))
                => requests[j].dataset_id = PostId(call)
        /\ (\E i \in DOMAIN requests : requests[i].dataset_id = PostId(call)) =>
             /\ segno = 2
             /\ pre_mari_data.rep = return_type
             /\ \E i \in DOMAIN requests : requests[i].dataset_id = PreId(call)
        /\ segno = 1 =>
             /\ pre_mari_data = NoValue
             /\ \A i \in DOMAIN requests : requests[i].dataset_id = PreId(call)

C26_Witness ==
    /\ pc = "paginate"
    /\ Known(call)
    /\ Len(plan) = 2
    /\ Len(requests) = 3
    /\ requests[1].dataset_id = PreId(call)
    /\ requests[2].dataset_id = PreId(call)
    /\ requests[3].dataset_id = PostId(call)
    /\ pre_mari_data.rows # <<>>

----------------------------------------------------------------------------
\* max(1, floor(10000 / b))
MaxPageRequests(b) ==
    IF PaginationCeiling \div b < 1 THEN 1 ELSE PaginationCeiling \div b

\* C27: whatever the server answers, a paginated fetch with batch size
\* b >= 1 issues at most max(1, floor(10000 / b)) page requests: it never
\* stands before a further request with that many already issued.
C27_BoundedRequests ==
    (InCall /\ requests # <<>> /\ requests[1].params.limit >= 1) =>
        /\ Len(requests) <= MaxPageRequests(requests[1].params.limit)
        /\ pc = "paginate" =>
             Len(requests) < MaxPageRequests(requests[1].params.limit)
        /\ Len(requests) = MaxPageRequests(requests[1].params.limit) =>
             pc = "returned"

C27_Witness ==
    /\ pc = "returned"
    /\ requests # <<>>
    /\ requests[1].params.limit = 3334
    /\ Len(requests) = 2
    /\ Len(result.rows) = 6670
    /\ warnings # <<>>

----------------------------------------------------------------------------
\* C28: with a batch size b between 1 and 10,000 every page request has
\* offset + b <= 10,000, and against a server that gives at most b records
\* per page the value returned holds at most 10,000 records.
C28_WithinCeiling ==
    (InCall /\ requests # <<>>
        /\ requests[1].params.limit >= 1
        /\ requests[1].params.limit <= PaginationCeiling) =>
        /\ \A i \in DOMAIN requests :
             requests[i].params.offset + requests[i].params.limit <= PaginationCeiling
        /\ Len(seg.all_records) <= PaginationCeiling
        /\ pc = "returned" => Len(result.rows) <= PaginationCeiling

C28_Witness ==
    /\ pc = "returned"
    /\ server = <<30000>>
    /\ requests[1].params.limit = 2500
    /\ Len(requests) = 4
    /\ requests[4].params.offset + requests[4].params.limit = PaginationCeiling
    /\ Len(result.rows) = PaginationCeiling

----------------------------------------------------------------------------
RECURSIVE DaysBeforeMonth(_, _)
DaysBeforeMonth(y, m) ==
    IF m = 1 THEN 0 ELSE DaysBeforeMonth(y, m - 1) + DaysInMonth(y, m - 1)

RECURSIVE DaysBeforeYear(_)
DaysBeforeYear(y) ==
    IF y = 2023 THEN 0
    ELSE DaysBeforeYear(y - 1) + (IF IsLeap(y - 1) THEN 366 ELSE 365)

\* the calendar day of a datetime, counted from 2023-01-01
DayNumber(a) == DaysBeforeYear(a.year) + DaysBeforeMonth(a.year, a.month) + a.day

\* the days first..last of a period of the plan
PeriodDays(p) ==
    DayNumber(fromisoformat(p.start_date_str))..DayNumber(fromisoformat(p.end_date_str))

\* the days of the range the caller asked for
RequestedDays == DayNumber(ArgDt(call.start_date))..DayNumber(ArgDt(call.end_date))

\* C29: for a call with a known dataset_name and start_date <= end_date,
\* every calendar day from start_date to end_date lies in the date range of
\* exactly one period fetched, and no period's range has a day outside.
C29_DayPartition ==
    (InCall /\ Known(call) /\ Parsable(call)
        /\ ~dt_lt(ArgDt(call.end_date), ArgDt(call.start_date))) =>
        /\ plan # <<>>
        /\ \A d \in RequestedDays :
             Cardinality({k \in DOMAIN plan : d \in PeriodDays(plan[k])}) = 1
        /\ \A k \in DOMAIN plan :
             /\ PeriodDays(plan[k]) # {}
             /\ PeriodDays(plan[k]) \subseteq RequestedDays

C29_Witness ==
    /\ pc = "returned"
    /\ Known(call)
    /\ call.start_date = [datetime |-> dt(2024, 5, 21, 12)]
    /\ call.end_date = [str |-> "2024-06-30T12:00:00"]
    /\ Len(plan) = 2
    /\ Cardinality(PeriodDays(plan[1])) = 1
    /\ Cardinality(PeriodDays(plan[2])) = 40
    /\ Cardinality(RequestedDays) = 41

----------------------------------------------------------------------------
\* C30: in a straddling call by name every request of the post-MARI period
\* carries the caller's where clause joined with the post period's date
\* clause alone, every request of the call uses the fetch mode the caller's
\* export_data asks for and, in pagination mode, the caller's batch size,
\* and no request carries export_data as a parameter.
C30_SecondSegmentFromOriginal ==
    (InCall /\ Known(call) /\ Parsable(call) /\ Len(plan) = 2) =>
        \A i \in DOMAIN requests :
            /\ "export_data" \notin DOMAIN requests[i].params
            /\ requests[i].method =
                 (IF Get(call.kwargs, "export_data", FALSE)
                  THEN "export" ELSE "get_records")
            /\ requests[i].method = "get_records" =>
                 requests[i].params.limit = Get(call.kwargs, "limit", DefaultLimit)
            /\ requests[i].dataset_id = PostId(call) =>
                 requests[i].params.where =
                     WhereFor(call, "2024-05-22", ArgStr(call.end_date))
            /\ requests[i].dataset_id = PreId(call) =>
                 requests[i].params.where =
                     WhereFor(call, ArgStr(call.start_date), "2024-05-21")

C30_Witness ==
    /\ pc = "returned"
    /\ Known(call)
    /\ Len(plan) = 2
    /\ call.kwargs = [where |-> "type='measured'", export_data |-> TRUE,
                      limit |-> SmallLimit]
    /\ call.end_date = [datetime |-> dt(2024, 5, 31, 0)]
    /\ Len(requests) = 2
    /\ requests[2].method = "export"
    /\ requests[2].params.where =
         "(type='measured') AND (datetime IN [date'2024-05-22'..date'2024-05-31'])"

====
